---------------------------- MODULE Spec2Model ----------------------------
(***************************************************************************)
(* A state-machine model of run_scheduler (src/scheduler.cpp): one action  *)
(* per iteration of each of the four simulation loops (MLQ, MLFQ, RR and   *)
(* the generic FCFS/SJF/SRTF/PRIO_NP/PRIO_P loop) and one for the final    *)
(* log copy.  Table positions are 1..n here (0..n-1 in the source); the    *)
(* source's "idx == -1" (nothing selected) is position 0 here.             *)
(***************************************************************************)
EXTENDS Integers, Sequences, FiniteSets, TLC

VARIABLES
    procs,            \* the caller's process table (Process* procs)
    n,                \* number of processes
    algorithm_code,   \* 0..7
    quantum,          \* RR quantum
    max_logs,         \* capacity of the caller's log buffer
    logs,             \* the entries written to the caller's log buffer
    count,            \* the return value (-1 until the call returns)
    queue,            \* std::vector<Process> queue: the working copy
    local_logs,       \* std::vector<GanttLog> local_logs
    current_time,
    completed,
    ready_queues,     \* MLQ: ready_queues[1], [2], [3]
    in_ready_queue,   \* MLQ and MLFQ: in_ready_queue[i]
    q1_ready,         \* MLFQ
    q2_ready,
    q3_ready,
    ready_queue,      \* RR
    in_queue,         \* RR
    pc,               \* "loop" while in a simulation loop, "done" after return
    rr_enq,           \* history: for each RR-queued position, when it was
                      \* placed in ready_queue and how long the queue then was
    rr_disp,          \* history: the last RR dispatch
    mlfq_hist,        \* history: per position, the MLFQ demotions and
                      \* promotions so far and the queue of the last run
    mlfq_disp,        \* history: the last MLFQ dispatch
    gen_disp          \* history: the last dispatch of the generic loop

vars == << procs, n, algorithm_code, quantum, max_logs, logs, count, queue,
           local_logs, current_time, completed, ready_queues, in_ready_queue,
           q1_ready, q2_ready, q3_ready, ready_queue, in_queue, pc,
           rr_enq, rr_disp, mlfq_hist, mlfq_disp, gen_disp >>

-----------------------------------------------------------------------------
(* Bounds of the enumerated workloads. *)
MaxN == 2
MaxAt == 2
MaxBt == 2
Slack == 2
MaxLogs == 8

(* Program constants. *)
PRIORITY_AGING_RATE == 5
Q1_QUANTUM == 8
Q2_QUANTUM == 16
Q3_PROMOTION_THRESHOLD == 50
MLQ_Q2_QUANTUM == 10
IDLE_PID == -1

FCFS == 0
SJF == 1
SRTF == 2
PRIO_NP == 3
PRIO_P == 4
RR == 5
MLFQ == 6
MLQ == 7

-----------------------------------------------------------------------------
(* Small arithmetic and sequence helpers. *)
Min(a, b) == IF a < b THEN a ELSE b

Max(a, b) == IF a > b THEN a ELSE b

RECURSIVE SumTo(_, _)
SumTo(f, k) == IF k = 0 THEN 0 ELSE f[k] + SumTo(f, k - 1)

RECURSIVE MaxTo(_, _)
MaxTo(f, k) == IF k = 0 THEN 0 ELSE Max(f[k], MaxTo(f, k - 1))

Last(s) == s[Len(s)]

PushFront(s, x) == <<x>> \o s

RemoveAt(s, k) == SubSeq(s, 1, k - 1) \o SubSeq(s, k + 1, Len(s))

-----------------------------------------------------------------------------
(* The workloads: what the caller passes in. *)
InRec(pid, at, bt, priority) ==
    [pid |-> pid, at |-> at, bt |-> bt, priority |-> priority]

PrioChoices(alg) ==
    IF alg = MLQ THEN {1, 2, 3}
    ELSE IF alg \in {PRIO_NP, PRIO_P} THEN {1, 2}
    ELSE {1}

QuantumChoices(alg) == IF alg = RR THEN {1, 2} ELSE {0}

ProcChoices(alg) ==
    [at : 0..MaxAt, bt : 1..MaxBt, priority : PrioChoices(alg)]

Load(alg, q, ml, tb) ==
    [algorithm_code |-> alg, quantum |-> q, max_logs |-> ml, table |-> tb]

(* The concrete scenarios of the specification's section 8 and a few more  *)
(* with three processes, larger bursts, other pids and a short log buffer. *)
Scenarios ==
    { Load(FCFS, 0, 16, << InRec(1,0,5,1), InRec(2,1,3,1), InRec(3,2,8,1) >>),
      Load(SRTF, 0, 16, << InRec(1,0,7,1), InRec(2,2,4,1), InRec(3,4,1,1),
                           InRec(4,5,4,1) >>),
      Load(RR, 2, 16, << InRec(1,0,5,1), InRec(2,1,3,1), InRec(3,2,1,1) >>),
      Load(RR, 2, 16, << InRec(1,0,4,1), InRec(2,0,3,1), InRec(3,0,5,1) >>),
      Load(RR, 3, 16, << InRec(7,1,4,1), InRec(3,0,7,1), InRec(5,9,2,1) >>),
      Load(RR, 2, 16, << InRec(1,0,1,1), InRec(2,0,5,1), InRec(3,1,4,1),
                         InRec(4,2,3,1), InRec(5,9,1,1) >>),
      Load(RR, 2, 2,  << InRec(1,0,3,1), InRec(2,0,3,1) >>),
      Load(RR, 2, 16, << InRec(1,0,3,1), InRec(2,0,2,1), InRec(3,1,2,1),
                         InRec(4,1,1,1) >>),
      Load(PRIO_P, 0, 16, << InRec(1,0,10,3), InRec(2,2,2,1) >>),
      Load(PRIO_NP, 0, 16, << InRec(1,0,6,1), InRec(2,0,2,3), InRec(3,1,2,2) >>),
      Load(PRIO_P, 0, 16, << InRec(1,0,12,2), InRec(2,1,2,3) >>),
      Load(PRIO_P, 0, 16, << InRec(1,0,6,1), InRec(2,0,3,3), InRec(3,7,6,1) >>),
      Load(PRIO_P, 0, 16, << InRec(1,0,3,1), InRec(2,1,1,0) >>),
      Load(PRIO_NP, 0, 16, << InRec(1,0,2,-2), InRec(2,0,7,0), InRec(3,1,1,4) >>),
      Load(MLFQ, 0, 16, << InRec(1,0,30,1) >>),
      Load(MLFQ, 0, 16, << InRec(1,0,9,1), InRec(2,3,4,1) >>),
      Load(MLFQ, 0, 16, << InRec(1,0,30,1), InRec(2,8,10,1), InRec(3,32,9,1) >>),
      Load(MLFQ, 0, 16, << InRec(1,0,42,1), InRec(2,24,24,1), InRec(3,48,24,1),
                           InRec(4,72,2,1) >>),
      Load(MLQ, 0, 16, << InRec(1,0,5,3), InRec(2,2,3,1) >>),
      Load(MLQ, 0, 16, << InRec(1,0,12,2), InRec(2,0,3,2), InRec(3,20,2,1) >>),
      Load(MLQ, 0, 16, << InRec(4,0,3,3), InRec(9,0,2,3), InRec(2,1,4,2) >>),
      Load(FCFS, 0, 16, << InRec(1,5,3,1) >>),
      Load(SJF, 0, 16, << InRec(1,0,3,1), InRec(2,0,2,1), InRec(3,0,2,1) >>),
      Load(PRIO_NP, 0, 16, << InRec(1,0,1,2), InRec(2,0,1,1), InRec(3,0,1,1) >>),
      Load(SJF, 0, 1, << InRec(1,1,3,1), InRec(2,0,2,1) >>) }

-----------------------------------------------------------------------------
(* run_scheduler, entry and initialisation. *)
InitProc(p, alg) ==
    [ pid |-> p.pid, at |-> p.at, bt |-> p.bt, priority |-> p.priority,
      ct |-> 0, tat |-> 0, wt |-> 0,
      rem_time |-> p.bt,
      first_run |-> -1,
      base_priority |-> p.priority,
      current_priority |-> p.priority,
      current_queue |-> IF alg = 6 THEN 1
                        ELSE IF alg = 7 THEN p.priority
                        ELSE -1,
      last_q3_entry |-> -1 ]

NoDispatch ==
    [idx |-> 0, start |-> 0, exec |-> 0, enq_t |-> 0, enq_k |-> 1,
     rest |-> << >>, requeued |-> FALSE, rerun |-> FALSE]

(* History of the MLFQ levels of one position: nothing has happened yet. *)
NoMoves == [dem |-> 0, prom |-> 0, from |-> 0, to |-> 0, ranq |-> 0]

(* History of the MLFQ loop: nothing has been dispatched yet. *)
NoMLFQDispatch ==
    [idx |-> 0, start |-> 0, exec |-> 0, current_q |-> 0, rem |-> 0,
     level |-> 0, tail |-> 0]

(* History of the generic loop: nothing has been dispatched yet. *)
NoSelection(tb) ==
    [idx |-> 0, start |-> 0, run |-> 0, snap |-> << >>,
     cap |-> [i \in 1..Len(tb) |-> tb[i].priority]]

Start(w) ==
    /\ n = Len(w.table)
    /\ algorithm_code = w.algorithm_code
    /\ quantum = w.quantum
    /\ max_logs = w.max_logs
    /\ procs = [i \in 1..Len(w.table) |-> InitProc(w.table[i], w.algorithm_code)]
    /\ queue = [i \in 1..Len(w.table) |-> InitProc(w.table[i], w.algorithm_code)]
    /\ logs = << >>
    /\ count = -1
    /\ local_logs = << >>
    /\ current_time = 0
    /\ completed = 0
    /\ ready_queues =
          [q \in {1, 2, 3} \cup (IF w.algorithm_code = 7
                                 THEN {w.table[i].priority : i \in 1..Len(w.table)}
                                 ELSE {}) |-> << >>]
    /\ in_ready_queue = [i \in 1..Len(w.table) |-> FALSE]
    /\ q1_ready = << >>
    /\ q2_ready = << >>
    /\ q3_ready = << >>
    /\ ready_queue = << >>
    /\ in_queue = [i \in 1..Len(w.table) |-> FALSE]
    /\ pc = "loop"
    /\ rr_enq = [i \in 1..Len(w.table) |-> [t |-> 0, k |-> 1]]
    /\ rr_disp = NoDispatch
    /\ mlfq_hist = [i \in 1..Len(w.table) |-> NoMoves]
    /\ mlfq_disp = NoMLFQDispatch
    /\ gen_disp = NoSelection(w.table)

(* The enumerated workloads: every algorithm, 1..MaxN processes with pids  *)
(* 1..n in table order, every arrival time, burst and priority in range.   *)
Enumerated ==
    \E alg \in 0..7 : \E k \in 1..MaxN : \E q \in QuantumChoices(alg) :
        \E f \in [1..k -> ProcChoices(alg)] :
            Start(Load(alg, q, MaxLogs,
                       [i \in 1..k |-> InRec(i, f[i].at, f[i].bt, f[i].priority)]))

Init == (\E w \in Scenarios : Start(w)) \/ Enumerated

(* Calls with an input that is not well-formed: an algorithm code outside  *)
(* 0..7, an RR quantum that is not positive, a burst that is not positive, *)
(* an MLQ queue number outside 1..3.  run_scheduler has no check of its    *)
(* arguments, so such a call enters the same initialisation and loops.     *)
BadCodes == {-1, 8}

BadQuanta == {0, -1}

BadBursts == {0, -1}

BadQueues == {0, 4}

BadInit ==
    \/ \E alg \in BadCodes : \E k \in 1..MaxN :
          \E f \in [1..k -> ProcChoices(FCFS)] :
             Start(Load(alg, 0, MaxLogs,
                        [i \in 1..k |-> InRec(i, f[i].at, f[i].bt, f[i].priority)]))
    \/ \E q \in BadQuanta : \E k \in 1..MaxN :
          \E f \in [1..k -> ProcChoices(RR)] :
             Start(Load(RR, q, MaxLogs,
                        [i \in 1..k |-> InRec(i, f[i].at, f[i].bt, f[i].priority)]))
    \/ \E alg \in 0..7 : \E k \in 1..MaxN : \E q \in QuantumChoices(alg) :
          \E f \in [1..k -> [at : 0..MaxAt, bt : BadBursts \cup (1..MaxBt),
                             priority : PrioChoices(alg)]] :
             /\ \E i \in 1..k : f[i].bt <= 0
             /\ Start(Load(alg, q, MaxLogs,
                           [i \in 1..k |-> InRec(i, f[i].at, f[i].bt, f[i].priority)]))
    \/ \E k \in 1..MaxN :
          \E f \in [1..k -> [at : 0..MaxAt, bt : 1..MaxBt,
                             priority : BadQueues \cup {1, 2, 3}]] :
             /\ \E i \in 1..k : f[i].priority \notin {1, 2, 3}
             /\ Start(Load(MLQ, 0, MaxLogs,
                           [i \in 1..k |-> InRec(i, f[i].at, f[i].bt, f[i].priority)]))

(* The simulated-time horizon of the model: a run that serves every        *)
(* process ends by max(at) + sum(bt); no loop iteration is taken beyond    *)
(* that plus Slack.                                                        *)
Horizon ==
    MaxTo([i \in 1..n |-> queue[i].at], n)
        + SumTo([i \in 1..n |-> queue[i].bt], n) + Slack

(* The loop iterations the model takes: within the horizon, and while the  *)
(* simulated time has not run backwards by a horizon nor the log grown     *)
(* beyond one entry per time unit of the horizon (either happens only when *)
(* a dispatch does not advance the time).                                  *)
InHorizon ==
    /\ current_time < Horizon
    /\ current_time + Horizon > 0
    /\ Len(local_logs) <= Horizon

-----------------------------------------------------------------------------
(* The Gantt logger. *)
Entry(pid, start, finish) == [pid |-> pid, start |-> start, finish |-> finish]

(* A faulty idle tick: a trailing idle entry is left as it is. *)
IdleAppendNoExtend(log, t) ==
    IF log /= << >> /\ Last(log).pid = -1
    THEN log
    ELSE Append(log, Entry(-1, t, t + 1))

(* Idle tick: extend a trailing idle entry, else append (-1, t, t+1). *)
IdleAppend(log, t) ==
    IF log /= << >> /\ Last(log).pid = -1
    THEN [log EXCEPT ![Len(log)].finish = @ + 1]
    ELSE Append(log, Entry(-1, t, t + 1))

(* A faulty logger: every dispatch appends a new entry. *)
LogAppendAlways(log, pid, start, finish) ==
    Append(log, Entry(pid, start, finish))

(* Dispatch (pid, start, finish): extend the last entry when it has the    *)
(* same pid and ends at start, else append.                                *)
LogAppend(log, pid, start, finish) ==
    IF log /= << >> /\ Last(log).pid = pid /\ Last(log).finish = start
    THEN [log EXCEPT ![Len(log)].finish = finish]
    ELSE Append(log, Entry(pid, start, finish))

(* A faulty completion: the waiting time is taken from ct, not from tat. *)
FinalizeWtFromCt(p, q, t) ==
    [p EXCEPT !.ct = t, !.tat = t - p.at, !.bt = q.bt, !.wt = t - q.bt]

(* Completion: ct, tat, bt and wt of the caller's record. *)
Finalize(p, q, t) ==
    [p EXCEPT !.ct = t, !.tat = t - p.at, !.bt = q.bt, !.wt = (t - p.at) - q.bt]

(* Response time check: first_run is set on the first dispatch only. *)
SetFirstRun(p, q, start) ==
    IF q.first_run = -1 THEN [p EXCEPT !.first_run = start] ELSE p

-----------------------------------------------------------------------------
(* MLQ (algorithm code 7). *)

(* The comparator of the Q1 sort: base_priority, then arrival time. *)
Q1Less(q, a, b) ==
    IF q[a].base_priority /= q[b].base_priority
    THEN q[a].base_priority < q[b].base_priority
    ELSE q[a].at < q[b].at

(* The comparator of the Q3 sort: arrival time. *)
Q3Less(q, a, b) == q[a].at < q[b].at

(* std::sort of ready_queues[target_q] (1 or 3) with that queue's          *)
(* comparator: the outcome is some arrangement of the same elements that   *)
(* is ordered by the comparator; the order of equivalent elements is       *)
(* unspecified, so every such arrangement is a possible outcome.           *)
SortOutcomes(s, q, target_q) ==
    { t \in { [k \in 1..Len(s) |-> s[p[k]]] : p \in Permutations(1..Len(s)) } :
        \A x, y \in 1..Len(s) :
            x < y => ~(IF target_q = 1 THEN Q1Less(q, t[y], t[x])
                                       ELSE Q3Less(q, t[y], t[x])) }

(* check_arrivals(t), positions i..n: the set of possible results. *)
RECURSIVE MLQArrivalsFrom(_, _, _, _, _)
MLQArrivalsFrom(rq, inq, q, t, i) ==
    IF i > Len(q) THEN { [rq |-> rq, inq |-> inq] }
    ELSE IF ~inq[i] /\ q[i].rem_time > 0 /\ q[i].at <= t
    THEN LET target_q == q[i].current_queue
             pushed == Append(rq[target_q], i)
             outs == IF target_q = 1 \/ target_q = 3
                     THEN SortOutcomes(pushed, q, target_q)
                     ELSE { pushed }
         IN UNION { MLQArrivalsFrom([rq EXCEPT ![target_q] = o],
                                    [inq EXCEPT ![i] = TRUE], q, t, i + 1) :
                    o \in outs }
    ELSE MLQArrivalsFrom(rq, inq, q, t, i + 1)

MLQCheckArrivals(rq, inq, q, t) == MLQArrivalsFrom(rq, inq, q, t, 1)

(* Phase 2: strict priority selection.  The Q1 head is read but not        *)
(* dequeued; the Q2 and Q3 heads are dequeued.                             *)
MLQSelect(rq) ==
    IF rq[1] /= << >>
    THEN [idx |-> rq[1][1], current_q |-> 1, rq |-> rq]
    ELSE IF rq[2] /= << >>
    THEN [idx |-> Head(rq[2]), current_q |-> 2, rq |-> [rq EXCEPT ![2] = Tail(@)]]
    ELSE IF rq[3] /= << >>
    THEN [idx |-> Head(rq[3]), current_q |-> 3, rq |-> [rq EXCEPT ![3] = Tail(@)]]
    ELSE [idx |-> 0, current_q |-> -1, rq |-> rq]

(* Phase 3: execution duration by queue. *)
MLQRunTime(q, idx, current_q) ==
    IF current_q = 1 THEN 1
    ELSE IF current_q = 2 THEN Min(q[idx].rem_time, MLQ_Q2_QUANTUM)
    ELSE q[idx].rem_time

(* The master preemption check, positions i..n: next_switch_time is pulled *)
(* down to the arrival of every unfinished Q1-assigned process that        *)
(* arrives strictly inside (t, next_switch_time).                          *)
RECURSIVE MLQNextSwitchFrom(_, _, _, _)
MLQNextSwitchFrom(q, t, nst, i) ==
    IF i > Len(q) THEN nst
    ELSE IF q[i].rem_time > 0 /\ q[i].current_queue = 1
            /\ q[i].at > t /\ q[i].at < nst
    THEN MLQNextSwitchFrom(q, t, q[i].at, i + 1)
    ELSE MLQNextSwitchFrom(q, t, nst, i + 1)

(* A faulty preemption check: Q1 arrivals are not looked at. *)
MLQNoPreemption(q, t, run_time) == t + run_time

MLQNextSwitch(q, t, run_time) == MLQNextSwitchFrom(q, t, t + run_time, 1)

(* Phase 4, process not finished: only a Q2 process is put back. *)
MLQRequeue(rq, idx, current_q) ==
    IF current_q = 2 THEN [rq EXCEPT ![2] = Append(@, idx)] ELSE rq

(* The skipped dispatch (run_time <= 0): Q2/Q3 heads go back to the front. *)
MLQSkip(rq, idx, current_q) ==
    IF current_q = 2 THEN [rq EXCEPT ![2] = PushFront(@, idx)]
    ELSE IF current_q = 3 THEN [rq EXCEPT ![3] = PushFront(@, idx)]
    ELSE rq

MLQIteration(ca) ==
    LET sel == MLQSelect(ca.rq)
        idx == sel.idx
        current_q == sel.current_q
        run_time == MLQNextSwitch(queue, current_time,
                                  MLQRunTime(queue, idx, current_q)) - current_time
        start == current_time
        rem == queue[idx].rem_time - run_time
    IN  IF idx = 0
        THEN /\ local_logs' = IdleAppend(local_logs, current_time)
             /\ current_time' = current_time + 1
             /\ ready_queues' = sel.rq
             /\ in_ready_queue' = ca.inq
             /\ UNCHANGED << procs, queue, completed >>
        ELSE IF run_time <= 0
        THEN /\ ready_queues' = MLQSkip(sel.rq, idx, current_q)
             /\ in_ready_queue' = ca.inq
             /\ current_time' = current_time + 1
             /\ UNCHANGED << procs, queue, completed, local_logs >>
        ELSE /\ current_time' = current_time + run_time
             /\ queue' = [queue EXCEPT ![idx].rem_time = rem,
                                       ![idx].first_run =
                                           IF @ = -1 THEN start ELSE @]
             /\ local_logs' = LogAppend(local_logs, queue[idx].pid, start,
                                        current_time + run_time)
             /\ IF rem = 0
                THEN /\ completed' = completed + 1
                     /\ procs' = [procs EXCEPT ![idx] =
                                    Finalize(SetFirstRun(@, queue[idx], start),
                                             queue[idx], current_time + run_time)]
                     /\ in_ready_queue' = [ca.inq EXCEPT ![idx] = FALSE]
                     /\ ready_queues' = sel.rq
                ELSE /\ completed' = completed
                     /\ procs' = [procs EXCEPT ![idx] =
                                    SetFirstRun(@, queue[idx], start)]
                     /\ in_ready_queue' = ca.inq
                     /\ ready_queues' = MLQRequeue(sel.rq, idx, current_q)

MLQStep ==
    /\ pc = "loop"
    /\ algorithm_code = 7
    /\ completed < n
    /\ InHorizon
    /\ \E ca \in MLQCheckArrivals(ready_queues, in_ready_queue, queue, current_time) :
          MLQIteration(ca)
    /\ UNCHANGED << n, algorithm_code, quantum, max_logs, logs, count,
                    q1_ready, q2_ready, q3_ready, ready_queue, in_queue, pc,
                    rr_enq, rr_disp, mlfq_hist, mlfq_disp, gen_disp >>

-----------------------------------------------------------------------------
(* MLFQ (algorithm code 6). *)

(* check_arrivals(t), positions i..n: every new arrival goes to Q1. *)
RECURSIVE MLFQArrivalsFrom(_, _, _, _, _)
MLFQArrivalsFrom(q1, inq, q, t, i) ==
    IF i > Len(q) THEN [q1 |-> q1, inq |-> inq]
    ELSE IF ~inq[i] /\ q[i].rem_time > 0 /\ q[i].at <= t
    THEN MLFQArrivalsFrom(Append(q1, i), [inq EXCEPT ![i] = TRUE], q, t, i + 1)
    ELSE MLFQArrivalsFrom(q1, inq, q, t, i + 1)

MLFQCheckArrivals(q1, inq, q, t) == MLFQArrivalsFrom(q1, inq, q, t, 1)

(* Phase 1: Q3 promotion, from position i of q3_ready on. *)
RECURSIVE MLFQPromoteFrom(_, _, _, _, _)
MLFQPromoteFrom(q2, q3, q, t, i) ==
    IF i > Len(q3) THEN [q2 |-> q2, q3 |-> q3, queue |-> q]
    ELSE LET idx == q3[i]
         IN IF q[idx].last_q3_entry /= -1
               /\ (t - q[idx].last_q3_entry) >= Q3_PROMOTION_THRESHOLD
            THEN MLFQPromoteFrom(Append(q2, idx), RemoveAt(q3, i),
                                 [q EXCEPT ![idx].current_queue = 2,
                                           ![idx].last_q3_entry = -1], t, i)
            ELSE MLFQPromoteFrom(q2, q3, q, t, i + 1)

MLFQPromote(q2, q3, q, t) == MLFQPromoteFrom(q2, q3, q, t, 1)

(* A faulty selection: the Q1 head is read but left in the queue. *)
MLFQSelectPeek(q1, q2, q3, q) ==
    IF q1 /= << >>
    THEN [idx |-> Head(q1), current_q |-> 1, current_quantum |-> Q1_QUANTUM,
          q1 |-> q1, q2 |-> q2, q3 |-> q3]
    ELSE IF q2 /= << >>
    THEN [idx |-> Head(q2), current_q |-> 2, current_quantum |-> Q2_QUANTUM,
          q1 |-> q1, q2 |-> Tail(q2), q3 |-> q3]
    ELSE IF q3 /= << >>
    THEN [idx |-> Head(q3), current_q |-> 3,
          current_quantum |-> q[Head(q3)].rem_time,
          q1 |-> q1, q2 |-> q2, q3 |-> Tail(q3)]
    ELSE [idx |-> 0, current_q |-> -1, current_quantum |-> 0,
          q1 |-> q1, q2 |-> q2, q3 |-> q3]

(* Phase 2: selection, Q1 before Q2 before Q3; the head is dequeued. *)
MLFQSelect(q1, q2, q3, q) ==
    IF q1 /= << >>
    THEN [idx |-> Head(q1), current_q |-> 1, current_quantum |-> Q1_QUANTUM,
          q1 |-> Tail(q1), q2 |-> q2, q3 |-> q3]
    ELSE IF q2 /= << >>
    THEN [idx |-> Head(q2), current_q |-> 2, current_quantum |-> Q2_QUANTUM,
          q1 |-> q1, q2 |-> Tail(q2), q3 |-> q3]
    ELSE IF q3 /= << >>
    THEN [idx |-> Head(q3), current_q |-> 3,
          current_quantum |-> q[Head(q3)].rem_time,
          q1 |-> q1, q2 |-> q2, q3 |-> Tail(q3)]
    ELSE [idx |-> 0, current_q |-> -1, current_quantum |-> 0,
          q1 |-> q1, q2 |-> q2, q3 |-> q3]

(* A faulty exec_time: one time unit per dispatch. *)
MLFQExecOne(rem_time, current_quantum) == 1

(* Phase 3: exec_time. *)
MLFQExecTime(rem_time, current_quantum) ==
    IF rem_time < current_quantum THEN rem_time ELSE current_quantum

(* A faulty demotion: a process that used its whole Q1 quantum goes       *)
(* straight to Q3.                                                         *)
MLFQPostSkip(idx, current_q, exec_time, current_quantum, q1, q2, q3, q, t) ==
    IF exec_time < current_quantum /\ current_q /= 3
    THEN [q1 |-> IF current_q = 1 THEN Append(q1, idx) ELSE q1,
          q2 |-> IF current_q = 2 THEN Append(q2, idx) ELSE q2,
          q3 |-> q3, queue |-> q]
    ELSE IF current_q /= 3
    THEN [q1 |-> q1, q2 |-> q2, q3 |-> Append(q3, idx),
          queue |-> [q EXCEPT ![idx].current_queue = 3,
                              ![idx].last_q3_entry = t]]
    ELSE [q1 |-> q1, q2 |-> q2, q3 |-> q3, queue |-> q]

(* Phase 4, process not finished: stay (early yield) or demote. *)
MLFQPost(idx, current_q, exec_time, current_quantum, q1, q2, q3, q, t) ==
    IF exec_time < current_quantum /\ current_q /= 3
    THEN [q1 |-> IF current_q = 1 THEN Append(q1, idx) ELSE q1,
          q2 |-> IF current_q = 2 THEN Append(q2, idx) ELSE q2,
          q3 |-> q3, queue |-> q]
    ELSE IF current_q /= 3
    THEN LET cq == q[idx].current_queue + 1
         IN IF cq = 2
            THEN [q1 |-> q1, q2 |-> Append(q2, idx), q3 |-> q3,
                  queue |-> [q EXCEPT ![idx].current_queue = cq]]
            ELSE IF cq >= 3
            THEN [q1 |-> q1, q2 |-> q2, q3 |-> Append(q3, idx),
                  queue |-> [q EXCEPT ![idx].current_queue = 3,
                                      ![idx].last_q3_entry = t]]
            ELSE [q1 |-> q1, q2 |-> q2, q3 |-> q3,
                  queue |-> [q EXCEPT ![idx].current_queue = cq]]
    ELSE [q1 |-> q1, q2 |-> q2, q3 |-> q3, queue |-> q]

(* History: a position whose level went from 3 to 2 in the promotion     *)
(* phase was promoted; the dispatched position idx, taken from queue       *)
(* current_q, was demoted when the post-update left it at another level    *)
(* than the one it was dispatched at.                                      *)
MLFQHistory(h, q, pr_q, idx, current_q, post_q) ==
    [i \in DOMAIN h |->
        LET promoted == q[i].current_queue = 3 /\ pr_q[i].current_queue = 2
            demoted == i = idx /\ post_q[i].current_queue /= pr_q[i].current_queue
        IN [dem |-> h[i].dem + (IF demoted THEN 1 ELSE 0),
            prom |-> h[i].prom + (IF promoted THEN 1 ELSE 0),
            from |-> IF demoted THEN pr_q[i].current_queue ELSE h[i].from,
            to |-> IF demoted THEN post_q[i].current_queue ELSE h[i].to,
            ranq |-> IF i = idx THEN current_q ELSE h[i].ranq]]

(* History: the dispatch of idx, taken from queue current_q with rem       *)
(* units left, for exec_time units from start; level is its current_queue *)
(* after the post-update and tail the queue whose tail it was put at (0:   *)
(* none).                                                                  *)
MLFQDispatch(idx, start, exec_time, current_q, rem, q1, q2, q3, q) ==
    [idx |-> idx, start |-> start, exec |-> exec_time, current_q |-> current_q,
     rem |-> rem, level |-> q[idx].current_queue,
     tail |-> IF q1 /= << >> /\ q1[Len(q1)] = idx THEN 1
              ELSE IF q2 /= << >> /\ q2[Len(q2)] = idx THEN 2
              ELSE IF q3 /= << >> /\ q3[Len(q3)] = idx THEN 3
              ELSE 0]

MLFQStep ==
    /\ pc = "loop"
    /\ algorithm_code = 6
    /\ completed < n
    /\ InHorizon
    /\ LET ca == MLFQCheckArrivals(q1_ready, in_ready_queue, queue, current_time)
           pr == MLFQPromote(q2_ready, q3_ready, queue, current_time)
           sel == MLFQSelect(ca.q1, pr.q2, pr.q3, pr.queue)
           idx == sel.idx
           exec_time == MLFQExecTime(pr.queue[idx].rem_time, sel.current_quantum)
           start == current_time
           finish == current_time + exec_time
           ran == [pr.queue EXCEPT ![idx].rem_time = @ - exec_time,
                                   ![idx].first_run = IF @ = -1 THEN start ELSE @]
           ca2 == MLFQCheckArrivals(sel.q1, ca.inq, ran, finish)
           post == MLFQPost(idx, sel.current_q, exec_time, sel.current_quantum,
                            ca2.q1, sel.q2, sel.q3, ran, finish)
       IN  IF idx = 0
           THEN /\ local_logs' = IdleAppend(local_logs, current_time)
                /\ current_time' = current_time + 1
                /\ q1_ready' = sel.q1
                /\ q2_ready' = sel.q2
                /\ q3_ready' = sel.q3
                /\ queue' = pr.queue
                /\ in_ready_queue' = ca.inq
                /\ mlfq_hist' = MLFQHistory(mlfq_hist, queue, pr.queue, 0, -1,
                                            pr.queue)
                /\ UNCHANGED << procs, completed, mlfq_disp >>
           ELSE /\ current_time' = finish
                /\ local_logs' = LogAppend(local_logs, queue[idx].pid, start, finish)
                /\ IF ran[idx].rem_time = 0
                   THEN /\ completed' = completed + 1
                        /\ procs' = [procs EXCEPT ![idx] =
                             [Finalize(SetFirstRun(@, pr.queue[idx], start),
                                       ran[idx], finish)
                                EXCEPT !.current_queue = ran[idx].current_queue]]
                        /\ in_ready_queue' = [ca2.inq EXCEPT ![idx] = FALSE]
                        /\ q1_ready' = ca2.q1
                        /\ q2_ready' = sel.q2
                        /\ q3_ready' = sel.q3
                        /\ queue' = ran
                        /\ mlfq_hist' = MLFQHistory(mlfq_hist, queue, pr.queue,
                                                    idx, sel.current_q, ran)
                        /\ mlfq_disp' = MLFQDispatch(idx, start, exec_time,
                                            sel.current_q, pr.queue[idx].rem_time,
                                            << >>, << >>, << >>, ran)
                   ELSE /\ completed' = completed
                        /\ procs' = [procs EXCEPT ![idx] =
                             [SetFirstRun(@, pr.queue[idx], start)
                                EXCEPT !.current_queue = post.queue[idx].current_queue]]
                        /\ in_ready_queue' = [ca2.inq EXCEPT ![idx] = TRUE]
                        /\ q1_ready' = post.q1
                        /\ q2_ready' = post.q2
                        /\ q3_ready' = post.q3
                        /\ queue' = post.queue
                        /\ mlfq_hist' = MLFQHistory(mlfq_hist, queue, pr.queue,
                                                    idx, sel.current_q, post.queue)
                        /\ mlfq_disp' = MLFQDispatch(idx, start, exec_time,
                                            sel.current_q, pr.queue[idx].rem_time,
                                            post.q1, post.q2, post.q3, post.queue)
    /\ UNCHANGED << n, algorithm_code, quantum, max_logs, logs, count,
                    ready_queues, ready_queue, in_queue, pc, rr_enq, rr_disp,
                    gen_disp >>

-----------------------------------------------------------------------------
(* RR (algorithm code 5). *)

(* The arrival scan, positions i..n: unqueued arrived processes are        *)
(* appended in table order.                                                *)
RECURSIVE RRArrivalsFrom(_, _, _, _, _)
RRArrivalsFrom(rq, inq, q, t, i) ==
    IF i > Len(q) THEN [rq |-> rq, inq |-> inq]
    ELSE IF ~inq[i] /\ q[i].rem_time > 0 /\ q[i].at <= t
    THEN RRArrivalsFrom(Append(rq, i), [inq EXCEPT ![i] = TRUE], q, t, i + 1)
    ELSE RRArrivalsFrom(rq, inq, q, t, i + 1)

RRArrivals(rq, inq, q, t) == RRArrivalsFrom(rq, inq, q, t, 1)

(* A faulty exec_time: the quantum is ignored. *)
RRExecAll(rem_time, qt) == rem_time

(* exec_time before the arrival clamp: min(rem_time, quantum). *)
RRExecTime(rem_time, qt) == IF rem_time < qt THEN rem_time ELSE qt

(* next_arrival_time, positions i..n: the smallest at among the unqueued   *)
(* unfinished processes, -1 when there is none.                            *)
RECURSIVE RRNextArrivalFrom(_, _, _, _)
RRNextArrivalFrom(inq, q, nat, i) ==
    IF i > Len(q) THEN nat
    ELSE IF ~inq[i] /\ q[i].rem_time > 0 /\ (nat = -1 \/ q[i].at < nat)
    THEN RRNextArrivalFrom(inq, q, q[i].at, i + 1)
    ELSE RRNextArrivalFrom(inq, q, nat, i + 1)

(* A faulty next_arrival_time: no arrival is ever found. *)
RRNoArrival(inq, q) == -1

RRNextArrival(inq, q) == RRNextArrivalFrom(inq, q, -1, 1)

(* The arrival clamp of exec_time. *)
RRClamp(exec_time, start, next_arrival_time) ==
    IF next_arrival_time /= -1 /\ start + exec_time > next_arrival_time
    THEN next_arrival_time - start
    ELSE exec_time

(* A faulty re-append: the unfinished process goes to the front. *)
RRReappendFront(rq, idx) == <<idx>> \o rq

(* After the dispatch: the unfinished process goes to the tail. *)
RRReappend(rq, idx) == Append(rq, idx)

(* History: the entries of newq beyond position from were placed at time t *)
(* when the queue was as long as their position.                           *)
RREnqueued(enq, newq, from, t) ==
    [i \in DOMAIN enq |->
        IF \E k \in (from + 1)..Len(newq) : newq[k] = i
        THEN [t |-> t, k |-> CHOOSE k \in (from + 1)..Len(newq) : newq[k] = i]
        ELSE enq[i]]

RRStep ==
    /\ pc = "loop"
    /\ algorithm_code = 5
    /\ completed < n
    /\ InHorizon
    /\ LET ar == RRArrivals(ready_queue, in_queue, queue, current_time)
           enq1 == RREnqueued(rr_enq, ar.rq, Len(ready_queue), current_time)
           idx == Head(ar.rq)
           rest == Tail(ar.rq)
           start == current_time
           next_arrival_time == RRNextArrival(ar.inq, queue)
           unclamped == RRExecTime(queue[idx].rem_time, quantum)
           clamped == next_arrival_time /= -1
                      /\ start + unclamped > next_arrival_time
           exec_time == RRClamp(unclamped, start, next_arrival_time)
           finish == current_time + exec_time
           ran == [queue EXCEPT ![idx].rem_time = @ - exec_time,
                                ![idx].first_run = IF @ = -1 THEN start ELSE @]
           ar2 == RRArrivals(rest, ar.inq, ran, finish)
           back == RRReappend(ar2.rq, idx)
       IN  IF ar.rq = << >>
           THEN /\ local_logs' = IdleAppend(local_logs, current_time)
                /\ current_time' = current_time + 1
                /\ ready_queue' = ar.rq
                /\ in_queue' = ar.inq
                /\ UNCHANGED << procs, queue, completed, rr_enq, rr_disp >>
           ELSE IF clamped /\ exec_time <= 0
           THEN /\ current_time' = next_arrival_time
                /\ ready_queue' = PushFront(rest, idx)
                /\ in_queue' = ar.inq
                /\ queue' = [queue EXCEPT ![idx].first_run =
                                              IF @ = -1 THEN start ELSE @]
                /\ procs' = [procs EXCEPT ![idx] =
                                SetFirstRun(@, queue[idx], start)]
                /\ rr_enq' = enq1
                /\ UNCHANGED << completed, local_logs, rr_disp >>
           ELSE /\ current_time' = finish
                /\ queue' = ran
                /\ local_logs' = LogAppend(local_logs, queue[idx].pid, start, finish)
                /\ rr_disp' = [idx |-> idx, start |-> start, exec |-> exec_time,
                               enq_t |-> enq1[idx].t, enq_k |-> enq1[idx].k,
                               rest |-> rest,
                               requeued |-> ran[idx].rem_time > 0,
                               rerun |-> queue[idx].first_run /= -1]
                /\ IF ran[idx].rem_time > 0
                   THEN /\ ready_queue' = back
                        /\ rr_enq' = RREnqueued(enq1, back, Len(rest), finish)
                        /\ in_queue' = ar2.inq
                        /\ completed' = completed
                        /\ procs' = [procs EXCEPT ![idx] =
                                        SetFirstRun(@, queue[idx], start)]
                   ELSE /\ ready_queue' = ar2.rq
                        /\ rr_enq' = RREnqueued(enq1, ar2.rq, Len(rest), finish)
                        /\ in_queue' = [ar2.inq EXCEPT ![idx] = FALSE]
                        /\ completed' = completed + 1
                        /\ procs' = [procs EXCEPT ![idx] =
                                        Finalize(SetFirstRun(@, queue[idx], start),
                                                 ran[idx], finish)]
    /\ UNCHANGED << n, algorithm_code, quantum, max_logs, logs, count,
                    ready_queues, in_ready_queue, q1_ready, q2_ready, q3_ready, pc,
                    mlfq_hist, mlfq_disp, gen_disp >>

-----------------------------------------------------------------------------
(* The generic loop: FCFS, SJF, SRTF, PRIO_NP, PRIO_P (codes 0..4); it is *)
(* the else branch of the tests for codes 7, 6 and 5, so every other code  *)
(* runs it too.                                                            *)

(* Phase 1: aging of one ready, never-run process: the priority number is  *)
(* lowered by one per PRIORITY_AGING_RATE units waited, not below 1.       *)
(* (C++ integer division of the non-negative wait_time.)                   *)
AgedPriority(p, t) ==
    Max(1, p.base_priority - ((t - p.at) \div PRIORITY_AGING_RATE))

(* A faulty aging pass: processes that have run keep aging. *)
AgingAlways(q, alg, t) ==
    IF alg = 3 \/ alg = 4
    THEN [i \in DOMAIN q |->
            IF q[i].rem_time > 0 /\ q[i].at <= t
            THEN [q[i] EXCEPT !.current_priority = AgedPriority(q[i], t)]
            ELSE q[i]]
    ELSE q

Aging(q, alg, t) ==
    IF alg = 3 \/ alg = 4
    THEN [i \in DOMAIN q |->
            IF q[i].rem_time > 0 /\ q[i].at <= t /\ q[i].first_run = -1
            THEN [q[i] EXCEPT !.current_priority = AgedPriority(q[i], t)]
            ELSE q[i]]
    ELSE q

(* The caller's table receives the aged priorities too. *)
AgingOut(p, q, aged, alg, t) ==
    IF alg = 3 \/ alg = 4
    THEN [i \in DOMAIN p |->
            IF q[i].rem_time > 0 /\ q[i].at <= t /\ q[i].first_run = -1
            THEN [p[i] EXCEPT !.current_priority = aged[i].current_priority]
            ELSE p[i]]
    ELSE p

(* The candidates, in table order, from position i on. *)
RECURSIVE CandidatesFrom(_, _, _)
CandidatesFrom(q, t, i) ==
    IF i > Len(q) THEN << >>
    ELSE IF q[i].at <= t /\ q[i].rem_time > 0
    THEN <<i>> \o CandidatesFrom(q, t, i + 1)
    ELSE CandidatesFrom(q, t, i + 1)

Candidates(q, t) == CandidatesFrom(q, t, 1)

(* A faulty comparison: on a full tie the later candidate replaces the    *)
(* choice.                                                                 *)
BetterOrEqual(q, alg, i, idx) ==
    IF alg = 0 THEN q[i].at <= q[idx].at
    ELSE IF alg = 1 \/ alg = 2
    THEN q[i].rem_time < q[idx].rem_time
         \/ (q[i].rem_time = q[idx].rem_time /\ q[i].at <= q[idx].at)
    ELSE IF alg = 3 \/ alg = 4
    THEN q[i].current_priority < q[idx].current_priority
         \/ (q[i].current_priority = q[idx].current_priority
             /\ q[i].at <= q[idx].at)
    ELSE FALSE

(* Whether candidate i replaces the current choice idx. *)
Better(q, alg, i, idx) ==
    IF alg = 0 THEN q[i].at < q[idx].at
    ELSE IF alg = 1 \/ alg = 2
    THEN q[i].rem_time < q[idx].rem_time
         \/ (q[i].rem_time = q[idx].rem_time /\ q[i].at < q[idx].at)
    ELSE IF alg = 3 \/ alg = 4
    THEN q[i].current_priority < q[idx].current_priority
         \/ (q[i].current_priority = q[idx].current_priority
             /\ q[i].at < q[idx].at)
    ELSE FALSE

(* The selection loop over candidates k.., idx being the choice so far. *)
RECURSIVE SelectFrom(_, _, _, _, _)
SelectFrom(q, alg, cands, idx, k) ==
    IF k > Len(cands) THEN idx
    ELSE SelectFrom(q, alg, cands,
                    IF Better(q, alg, cands[k], idx) THEN cands[k] ELSE idx,
                    k + 1)

(* A faulty selection: the first candidate in table order is taken. *)
SelectFirst(q, alg, cands) == cands[1]

Select(q, alg, cands) == SelectFrom(q, alg, cands, cands[1], 1)

(* The preemptive run_time loop (SRTF, PRIO_P) over positions i..n, with   *)
(* the run_time and next_switch_time computed so far.                      *)
RECURSIVE PreemptFrom(_, _, _, _, _, _, _)
PreemptFrom(q, alg, t, idx, run_time, nst, i) ==
    IF i > Len(q) THEN Min(run_time, nst - t)
    ELSE IF i = idx \/ q[i].rem_time = 0
    THEN PreemptFrom(q, alg, t, idx, run_time, nst, i + 1)
    ELSE LET arrival_preempts ==
                 /\ q[i].at > t
                 /\ q[i].at < nst
                 /\ \/ alg = 2 /\ q[i].rem_time < q[idx].rem_time
                    \/ alg = 4 /\ q[i].current_priority < q[idx].current_priority
             nst2 == IF arrival_preempts THEN q[i].at ELSE nst
             rt2 == IF alg = 4 /\ q[i].at <= t
                       /\ q[i].current_priority < q[idx].current_priority
                    THEN 1 ELSE run_time
         IN PreemptFrom(q, alg, t, idx, rt2, nst2, i + 1)

(* A faulty duration: the preemptive policies run up to the next          *)
(* preempting arrival (run_time starts at rem_time, not at 1).             *)
RunTimeToSwitch(q, alg, t, idx) ==
    IF alg = 0 \/ alg = 1 \/ alg = 3
    THEN q[idx].rem_time
    ELSE PreemptFrom(q, alg, t, idx, q[idx].rem_time, t + q[idx].rem_time, 1)

(* The execution duration calculation. *)
RunTime(q, alg, t, idx) ==
    IF alg = 0 \/ alg = 1 \/ alg = 3
    THEN q[idx].rem_time
    ELSE PreemptFrom(q, alg, t, idx, 1, t + q[idx].rem_time, 1)

GenericStep ==
    /\ pc = "loop"
    /\ algorithm_code \notin {5, 6, 7}
    /\ completed < n
    /\ InHorizon
    /\ LET aged == Aging(queue, algorithm_code, current_time)
           agedOut == AgingOut(procs, queue, aged, algorithm_code, current_time)
           candidates == Candidates(aged, current_time)
           idx == Select(aged, algorithm_code, candidates)
           run_time == RunTime(aged, algorithm_code, current_time, idx)
           start == current_time
           finish == current_time + run_time
           ran == [aged EXCEPT ![idx].rem_time = @ - run_time,
                               ![idx].first_run = IF @ = -1 THEN start ELSE @]
       IN  IF candidates = << >>
           THEN /\ local_logs' = IdleAppend(local_logs, current_time)
                /\ current_time' = current_time + 1
                /\ queue' = aged
                /\ procs' = agedOut
                /\ UNCHANGED << completed, gen_disp >>
           ELSE IF run_time <= 0
           THEN /\ current_time' = current_time + 1
                /\ queue' = aged
                /\ procs' = agedOut
                /\ UNCHANGED << completed, local_logs, gen_disp >>
           ELSE /\ current_time' = finish
                /\ queue' = ran
                /\ local_logs' = LogAppend(local_logs, aged[idx].pid, start, finish)
                /\ gen_disp' = [idx |-> idx, start |-> start, run |-> run_time,
                                snap |-> aged,
                                cap |-> [gen_disp.cap EXCEPT ![idx] =
                                           IF aged[idx].first_run = -1
                                           THEN aged[idx].current_priority
                                           ELSE @]]
                /\ IF ran[idx].rem_time = 0
                   THEN /\ completed' = completed + 1
                        /\ procs' = [agedOut EXCEPT ![idx] =
                                        Finalize(SetFirstRun(@, aged[idx], start),
                                                 ran[idx], finish)]
                   ELSE /\ completed' = completed
                        /\ procs' = [agedOut EXCEPT ![idx] =
                                        SetFirstRun(@, aged[idx], start)]
    /\ UNCHANGED << n, algorithm_code, quantum, max_logs, logs, count,
                    ready_queues, in_ready_queue, q1_ready, q2_ready, q3_ready,
                    ready_queue, in_queue, pc, rr_enq, rr_disp, mlfq_hist,
                    mlfq_disp >>

-----------------------------------------------------------------------------
(* The final log copy and return: at most max_logs entries are written. *)
Return ==
    /\ pc = "loop"
    /\ completed >= n
    /\ count' = Min(Len(local_logs), max_logs)
    /\ logs' = SubSeq(local_logs, 1, Min(Len(local_logs), max_logs))
    /\ pc' = "done"
    /\ UNCHANGED << procs, n, algorithm_code, quantum, max_logs, queue,
                    local_logs, current_time, completed, ready_queues,
                    in_ready_queue, q1_ready, q2_ready, q3_ready, ready_queue,
                    in_queue, rr_enq, rr_disp, mlfq_hist, mlfq_disp, gen_disp >>

Next == MLQStep \/ MLFQStep \/ RRStep \/ GenericStep \/ Return

Spec == Init /\ [][Next]_vars

(* The loop steps are taken as long as the loop condition holds. *)
FairSpec == Spec /\ WF_vars(Next)

(* The calls with an input that is not well-formed. *)
BadSpec == BadInit /\ [][Next]_vars

-----------------------------------------------------------------------------
(* Vocabulary of the properties. *)
Returned == pc = "done"

Positions == 1..n

TotalBurst == SumTo([i \in 1..n |-> queue[i].bt], n)

(* Logged duration of one pid. *)
PidDuration(log, pid) ==
    SumTo([k \in 1..Len(log) |->
             IF log[k].pid = pid THEN log[k].finish - log[k].start ELSE 0],
          Len(log))

(* Logged non-idle duration. *)
BusyDuration(log) ==
    SumTo([k \in 1..Len(log) |->
             IF log[k].pid /= IDLE_PID THEN log[k].finish - log[k].start ELSE 0],
          Len(log))

EntriesOf(log, pid) == { k \in 1..Len(log) : log[k].pid = pid }

FirstEntryOf(log, pid) ==
    CHOOSE k \in EntriesOf(log, pid) : \A m \in EntriesOf(log, pid) : k <= m

LastEntryOf(log, pid) ==
    CHOOSE k \in EntriesOf(log, pid) : \A m \in EntriesOf(log, pid) : k >= m

InSeq(s, x) == \E k \in 1..Len(s) : s[k] = x

(* The table of a concrete workload, as passed in. *)
IsInput(alg, qt, tb) ==
    /\ algorithm_code = alg
    /\ quantum = qt
    /\ n = Len(tb)
    /\ \A i \in 1..n : /\ queue[i].pid = tb[i].pid
                       /\ queue[i].at = tb[i].at
                       /\ queue[i].bt = tb[i].bt
                       /\ queue[i].priority = tb[i].priority

-----------------------------------------------------------------------------
(* C1: on every well-formed input and for every algorithm the simulation   *)
(* loop terminates with completed = n: eventually the call returns with    *)
(* every process finalized.                                                *)
C1_Terminates == <>(Returned /\ completed = n)

(* Why the MLQ runs that C1_Terminates fails on never return: a state in   *)
(* which a finished process sits in ready_queues[1], or an unfinished Q3    *)
(* process is marked as queued but is in no queue, with the loop still     *)
(* running.                                                                *)
MLQStuck ==
    /\ algorithm_code = MLQ
    /\ pc = "loop"
    /\ completed < n
    /\ \E i \in Positions :
          \/ InSeq(ready_queues[1], i) /\ queue[i].rem_time <= 0
          \/ /\ queue[i].current_queue = 3
             /\ in_ready_queue[i]
             /\ queue[i].rem_time > 0
             /\ ~InSeq(ready_queues[3], i)

(* Once the MLQ loop is in such a state it stays in one: it never returns. *)
MLQStuckForGood == [][MLQStuck => MLQStuck']_vars

(* A run that has reached the model's time horizon inside the loop is in   *)
(* such a state: only these runs are cut by the horizon.                   *)
OnlyStuckRunsReachHorizon ==
    (pc = "loop" /\ completed < n /\ current_time >= Horizon) => MLQStuck

(* C2: whenever the call has returned, the logged non-idle duration equals *)
(* the sum of the bursts; and at no point of the run does the logged       *)
(* duration of one pid exceed that process's burst.                        *)
C2_Conservation ==
    /\ Returned => BusyDuration(local_logs) = TotalBurst
    /\ \A i \in Positions : PidDuration(local_logs, queue[i].pid) <= queue[i].bt

(* C3: whenever the call has returned, every process's written-out metrics *)
(* agree with the log: ct is the finish of the last interval of its pid,   *)
(* first_run the start of the first one and first_run >= at,               *)
(* tat = ct - at, wt = tat - bt, and wt >= 0.                              *)
C3_MetricsAgree ==
    Returned =>
        \A i \in Positions :
            /\ EntriesOf(local_logs, procs[i].pid) /= {}
            /\ procs[i].ct = local_logs[LastEntryOf(local_logs, procs[i].pid)].finish
            /\ procs[i].first_run
                  = local_logs[FirstEntryOf(local_logs, procs[i].pid)].start
            /\ procs[i].first_run >= procs[i].at
            /\ procs[i].tat = procs[i].ct - procs[i].at
            /\ procs[i].wt = procs[i].tat - procs[i].bt
            /\ procs[i].wt >= 0
            /\ procs[i].ct >= procs[i].at + procs[i].bt
            /\ procs[i].tat >= procs[i].bt

(* C3 witness: a returned run of at least two processes in which one had   *)
(* to wait after arriving and ran in more than one interval.               *)
C3_Witness ==
    /\ Returned
    /\ n >= 2
    /\ \E i \in Positions :
          /\ procs[i].at > 0
          /\ procs[i].wt > 0
          /\ procs[i].first_run > procs[i].at
          /\ Cardinality(EntriesOf(local_logs, procs[i].pid)) >= 2

(* C4: after any number of loop iterations the log is contiguous: it       *)
(* starts at 0, every interval has start < finish, and each interval       *)
(* starts where the previous one finished.                                 *)
C4_Contiguous ==
    /\ local_logs /= << >> => local_logs[1].start = 0
    /\ \A k \in 1..Len(local_logs) : local_logs[k].start < local_logs[k].finish
    /\ \A k \in 1..(Len(local_logs) - 1) :
          local_logs[k + 1].start = local_logs[k].finish

(* C4 witness: a dispatch logged after an idle period of at least two      *)
(* ticks that itself follows a dispatch.                                   *)
C4_Witness ==
    \E k \in 2..(Len(local_logs) - 1) :
        /\ local_logs[k].pid = IDLE_PID
        /\ local_logs[k].finish - local_logs[k].start >= 2
        /\ local_logs[k - 1].pid /= IDLE_PID
        /\ local_logs[k + 1].pid /= IDLE_PID

(* C5: after any number of loop iterations no two adjacent log intervals   *)
(* carry the same pid, idle included.                                      *)
C5_Coalesced ==
    \A k \in 1..(Len(local_logs) - 1) :
        local_logs[k].pid /= local_logs[k + 1].pid

(* C5 witness: under SRTF every dispatch is one tick long, so an interval  *)
(* of two ticks or more is an extended one; and an idle interval of two    *)
(* ticks is an extended idle tick.                                         *)
C5_Witness ==
    /\ algorithm_code = SRTF
    /\ \E k \in 1..Len(local_logs) :
          /\ local_logs[k].pid /= IDLE_PID
          /\ local_logs[k].finish - local_logs[k].start >= 2
    /\ \E k \in 1..Len(local_logs) :
          /\ local_logs[k].pid = IDLE_PID
          /\ local_logs[k].finish - local_logs[k].start >= 2

(* C6: in every reachable state 0 <= rem_time <= bt for every process      *)
(* (so that no process is executed again once its rem_time has reached 0). *)
C6_RemTimeInRange ==
    \A i \in Positions : 0 <= queue[i].rem_time /\ queue[i].rem_time <= queue[i].bt

ProcOfPid(pid) == CHOOSE i \in Positions : queue[i].pid = pid

(* C7: under MLQ no Q2- or Q3-assigned process executes during a time unit *)
(* in which some Q1-assigned process has arrived and is not complete:      *)
(* every logged interval of a Q2/Q3 process ends no later than the arrival *)
(* of each Q1-assigned process that had not completed before it started.   *)
C7_StrictPriority ==
    algorithm_code = MLQ =>
        \A k \in 1..Len(local_logs) :
            LET e == local_logs[k]
            IN  (e.pid /= IDLE_PID /\ queue[ProcOfPid(e.pid)].current_queue \in {2, 3})
                => \A i \in Positions :
                      queue[i].current_queue = 1
                      => \/ queue[i].at >= e.finish
                         \/ queue[i].rem_time <= 0 /\ procs[i].ct <= e.start

(* C7 witness: a Q2/Q3 dispatch that was cut at the arrival of a Q1        *)
(* process: it ends at that arrival with work left.                        *)
C7_Witness ==
    /\ algorithm_code = MLQ
    /\ local_logs /= << >>
    /\ LET e == Last(local_logs)
       IN /\ e.pid /= IDLE_PID
          /\ e.finish = current_time
          /\ queue[ProcOfPid(e.pid)].current_queue \in {2, 3}
          /\ queue[ProcOfPid(e.pid)].rem_time > 0
          /\ e.finish - e.start < MLQ_Q2_QUANTUM
          /\ \E i \in Positions : queue[i].current_queue = 1 /\ queue[i].at = e.finish

(* The log so far is an initial part of the expected log: all entries but  *)
(* the last are the expected ones and the last one has not outgrown its    *)
(* expected interval.                                                      *)
LogWithin(log, expected) ==
    /\ Len(log) <= Len(expected)
    /\ \A k \in 1..(Len(log) - 1) : log[k] = expected[k]
    /\ log /= << >> =>
          /\ Last(log).pid = expected[Len(log)].pid
          /\ Last(log).start = expected[Len(log)].start
          /\ Last(log).finish <= expected[Len(log)].finish

C8_Input == << InRec(1, 0, 5, 3), InRec(2, 2, 3, 1) >>

C8_Log == << Entry(1, 0, 2), Entry(2, 2, 5), Entry(1, 5, 8) >>

(* C8: under MLQ with P1(at=0,bt=5,queue 3) and P2(at=2,bt=3,queue 1) the  *)
(* log develops into (1,0,2),(2,2,5),(1,5,8) and that is the log returned; *)
(* in general a Q2 or Q3 process that has been dispatched and is not       *)
(* finished remains in its ready queue.                                    *)
C8_PreemptedResumes ==
    /\ IsInput(MLQ, 0, C8_Input) =>
          /\ LogWithin(local_logs, C8_Log)
          /\ Returned => logs = C8_Log
    /\ algorithm_code = MLQ =>
          \A i \in Positions :
              (queue[i].current_queue \in {2, 3} /\ in_ready_queue[i]
                 /\ queue[i].rem_time > 0)
              => InSeq(ready_queues[queue[i].current_queue], i)

C9_Input == << InRec(1, 0, 5, 1), InRec(2, 1, 3, 1), InRec(3, 2, 1, 1) >>

C9_ClaimedLog ==
    << Entry(1, 0, 2), Entry(2, 2, 4), Entry(3, 4, 5),
       Entry(1, 5, 7), Entry(2, 7, 8), Entry(1, 8, 9) >>

C9_ActualLog ==
    << Entry(1, 0, 1), Entry(2, 1, 2), Entry(1, 2, 4),
       Entry(3, 4, 5), Entry(2, 5, 7), Entry(1, 7, 9) >>

(* C9 as stated: under RR with quantum 2 and P1(0,5), P2(1,3), P3(2,1) the *)
(* returned log is (1,0,2),(2,2,4),(3,4,5),(1,5,7),(2,7,8),(1,8,9) and the *)
(* completion times are 9, 8, 5.                                           *)
C9_Original ==
    (IsInput(RR, 2, C9_Input) /\ Returned) =>
        /\ logs = C9_ClaimedLog
        /\ << procs[1].ct, procs[2].ct, procs[3].ct >> = << 9, 8, 5 >>

(* C9 as amended: on that input every dispatch is also cut at the next     *)
(* arrival, so the returned log is                                         *)
(* (1,0,1),(2,1,2),(1,2,4),(3,4,5),(2,5,7),(1,7,9) and the completion      *)
(* times are 9, 7, 5.                                                      *)
C9_Amended ==
    (IsInput(RR, 2, C9_Input) /\ Returned) =>
        /\ count = 6
        /\ logs = C9_ActualLog
        /\ << procs[1].ct, procs[2].ct, procs[3].ct >> = << 9, 7, 5 >>

(* C9 witness: the run on that input has returned. *)
C9_Witness == IsInput(RR, 2, C9_Input) /\ Returned /\ completed = 3

(* C10: under RR no dispatch runs longer than the quantum, and a process   *)
(* placed in the ready queue when it held k entries (itself included) is   *)
(* dispatched at most (k-1)*quantum time units later.                      *)
C10_RRFairness ==
    (algorithm_code = RR /\ rr_disp.idx /= 0) =>
        /\ rr_disp.exec <= quantum
        /\ rr_disp.start - rr_disp.enq_t <= (rr_disp.enq_k - 1) * quantum

(* C10 witness: a process placed third in the queue is dispatched exactly  *)
(* two quanta later, and that dispatch uses its whole quantum.             *)
C10_Witness ==
    /\ algorithm_code = RR
    /\ rr_disp.idx /= 0
    /\ rr_disp.enq_k = 3
    /\ quantum >= 2
    /\ rr_disp.start - rr_disp.enq_t = 2 * quantum
    /\ rr_disp.exec = quantum

(* C11: under MLFQ every process is demoted at most twice, each demotion   *)
(* moving it exactly one level down (Q1 to Q2, Q2 to Q3), also when it was *)
(* promoted from Q3 back to Q2 after waiting 50 time units.                *)
C11_Original ==
    algorithm_code = MLFQ =>
        \A i \in Positions :
            /\ mlfq_hist[i].dem <= 2
            /\ mlfq_hist[i].dem > 0 =>
                  /\ mlfq_hist[i].from \in {1, 2}
                  /\ mlfq_hist[i].to = mlfq_hist[i].from + 1

(* C11 as the code has it: under MLFQ each demotion moves a process        *)
(* exactly one level down (Q1 to Q2, Q2 to Q3); a process is demoted at    *)
(* most twice plus once for every promotion from Q3 back to Q2 it has had. *)
C11_Amended ==
    algorithm_code = MLFQ =>
        \A i \in Positions :
            /\ mlfq_hist[i].dem <= 2 + mlfq_hist[i].prom
            /\ mlfq_hist[i].dem > 0 =>
                  /\ mlfq_hist[i].from \in {1, 2}
                  /\ mlfq_hist[i].to = mlfq_hist[i].from + 1

(* C11 witness: a process that reached Q3, was promoted to Q2 after 50     *)
(* time units there and used its whole Q2 quantum again is in Q3 after its *)
(* third demotion.                                                         *)
C11_Witness ==
    /\ algorithm_code = MLFQ
    /\ \E i \in Positions :
          /\ mlfq_hist[i].prom = 1
          /\ mlfq_hist[i].dem = 3
          /\ mlfq_hist[i].from = 2
          /\ mlfq_hist[i].to = 3
          /\ queue[i].current_queue = 3
          /\ InSeq(q3_ready, i)

(* C12: for every algorithm every process completes with                   *)
(* ct <= at + (sum of all bursts): a finished process has such a ct, and   *)
(* the simulation never stands at or beyond at + (sum of all bursts) with   *)
(* the process still unfinished.                                           *)
C12_CompletesInTime ==
    \A i \in Positions :
        /\ queue[i].rem_time = 0 => procs[i].ct <= queue[i].at + TotalBurst
        /\ queue[i].rem_time > 0 => current_time < queue[i].at + TotalBurst

(* C12 holds of every algorithm but MLQ. *)
C12_ExceptMLQ == algorithm_code /= MLQ => C12_CompletesInTime

(* The input of the call is not well-formed. *)
BadInput ==
    \/ algorithm_code \notin 0..7
    \/ algorithm_code = RR /\ quantum <= 0
    \/ \E i \in Positions : queue[i].bt <= 0
    \/ algorithm_code = MLQ /\ \E i \in Positions : queue[i].priority \notin {1, 2, 3}

(* The caller's record at position i is as the call found it: no result    *)
(* field has been written.                                                 *)
Untouched(i) ==
    procs[i] = InitProc(InRec(queue[i].pid, queue[i].at, queue[i].bt,
                              queue[i].priority), algorithm_code)

(* C13: on an input that is not well-formed (algorithm code outside 0..7,  *)
(* RR quantum <= 0, some burst <= 0, MLQ queue outside 1..3) the call       *)
(* refuses to start: it returns a negative value and leaves the process    *)
(* table and the log buffer as they were.                                  *)
C13_Rejects ==
    BadInput =>
        /\ Returned => count < 0
        /\ logs = << >>
        /\ \A i \in Positions : Untouched(i)

(* C14: when the call returns, every record of the caller's table has      *)
(* rem_time = 0, and under MLFQ its current_queue is the queue the process *)
(* was in when it last ran.                                                *)
C14_FinalFields ==
    Returned =>
        \A i \in Positions :
            /\ procs[i].rem_time = 0
            /\ algorithm_code = MLFQ =>
                  procs[i].current_queue = mlfq_hist[i].ranq

(* What does hold at return: the working copy has rem_time = 0, the        *)
(* caller's record still has the rem_time written at entry (its burst),    *)
(* and the MLFQ half of C14.                                               *)
C14_WorkingCopyOnly ==
    Returned =>
        \A i \in Positions :
            /\ queue[i].rem_time = 0
            /\ procs[i].rem_time = queue[i].bt
            /\ algorithm_code = MLFQ =>
                  procs[i].current_queue = mlfq_hist[i].ranq

-----------------------------------------------------------------------------
(* Vocabulary of the generic loop's dispatches: gen_disp.snap is the table *)
(* the selection saw (after the aging pass) at time gen_disp.start.        *)
Dispatched == algorithm_code \in 0..4 /\ gen_disp.idx /= 0

ReadyAt(i, t) == gen_disp.snap[i].at <= t /\ gen_disp.snap[i].rem_time > 0

(* The policy key of position i at the selection. *)
PolicyKey(i) ==
    IF algorithm_code = FCFS THEN gen_disp.snap[i].at
    ELSE IF algorithm_code \in {SJF, SRTF} THEN gen_disp.snap[i].rem_time
    ELSE gen_disp.snap[i].current_priority

(* Position a comes before position b: smaller key, then smaller arrival   *)
(* time, then lower table position.                                        *)
ComesBefore(a, b) ==
    \/ PolicyKey(a) < PolicyKey(b)
    \/ /\ PolicyKey(a) = PolicyKey(b)
       /\ \/ gen_disp.snap[a].at < gen_disp.snap[b].at
          \/ gen_disp.snap[a].at = gen_disp.snap[b].at /\ a <= b

(* C15: under FCFS, SJF, SRTF, PRIO_NP and PRIO_P every dispatch picks a   *)
(* ready process that minimises the policy key (at; rem_time;              *)
(* current_priority), ties broken by the smaller arrival time and then by  *)
(* the lowest table position.                                              *)
C15_Selection ==
    Dispatched =>
        /\ ReadyAt(gen_disp.idx, gen_disp.start)
        /\ \A i \in Positions :
              ReadyAt(i, gen_disp.start) => ComesBefore(gen_disp.idx, i)

(* C15 witness: a dispatch under a key-based policy at which another ready *)
(* process had the same key and the same arrival time, and a third ready   *)
(* one a larger key.                                                       *)
C15_Witness ==
    /\ Dispatched
    /\ algorithm_code \in {SJF, SRTF, PRIO_NP, PRIO_P}
    /\ \E i, j \in Positions :
          /\ i > gen_disp.idx
          /\ ReadyAt(i, gen_disp.start)
          /\ PolicyKey(i) = PolicyKey(gen_disp.idx)
          /\ gen_disp.snap[i].at = gen_disp.snap[gen_disp.idx].at
          /\ ReadyAt(j, gen_disp.start)
          /\ PolicyKey(j) > PolicyKey(gen_disp.idx)

(* The aged priority of position i at time t, by the aging rule: one less  *)
(* per 5 full time units waited since arrival, not below 1.                *)
AgedAt(i, t) ==
    LET waited == t - gen_disp.snap[i].at
        boost == CHOOSE b \in 0..waited : 5 * b <= waited /\ waited < 5 * (b + 1)
        lowered == gen_disp.snap[i].base_priority - boost
    IN IF lowered < 1 THEN 1 ELSE lowered

NeverRun(i) == gen_disp.snap[i].first_run = -1

(* C16: under PRIO_P the running process never keeps the CPU through a     *)
(* time unit t at which some ready process that has never run has an aged  *)
(* priority max(1, base - floor((t - at)/5)) strictly lower than the       *)
(* running process's current_priority.                                     *)
C16_AgingPreempts ==
    (Dispatched /\ algorithm_code = PRIO_P) =>
        \A t \in gen_disp.start..(gen_disp.start + gen_disp.run - 1) :
            \A i \in Positions \ {gen_disp.idx} :
                (ReadyAt(i, t) /\ NeverRun(i)) =>
                    AgedAt(i, t) >= gen_disp.snap[gen_disp.idx].current_priority

(* C16 witness: a process that has never run takes the CPU at the time     *)
(* unit its aged priority drops below that of a ready process that ran     *)
(* before; one time unit earlier its aged priority was not lower.          *)
C16_Witness ==
    /\ Dispatched
    /\ algorithm_code = PRIO_P
    /\ NeverRun(gen_disp.idx)
    /\ gen_disp.start > gen_disp.snap[gen_disp.idx].at
    /\ \E j \in Positions :
          /\ ReadyAt(j, gen_disp.start - 1)
          /\ ~NeverRun(j)
          /\ AgedAt(gen_disp.idx, gen_disp.start)
                < gen_disp.snap[j].current_priority
          /\ AgedAt(gen_disp.idx, gen_disp.start - 1)
                >= gen_disp.snap[j].current_priority

(* Under SRTF, during every time unit of the last dispatch the running     *)
(* process has the smallest remaining time among the ready processes.      *)
ShortestThroughout ==
    \A t \in gen_disp.start..(gen_disp.start + gen_disp.run - 1) :
        \A i \in Positions \ {gen_disp.idx} :
            ReadyAt(i, t) =>
                gen_disp.snap[gen_disp.idx].rem_time - (t - gen_disp.start)
                    <= gen_disp.snap[i].rem_time

(* The arrivals strictly inside a run to completion of the last dispatched *)
(* process whose burst is smaller than its remaining time at dispatch.     *)
ShorterArrivals ==
    { i \in Positions \ {gen_disp.idx} :
        /\ gen_disp.snap[i].at > gen_disp.start
        /\ gen_disp.snap[i].at
              < gen_disp.start + gen_disp.snap[gen_disp.idx].rem_time
        /\ gen_disp.snap[i].bt < gen_disp.snap[gen_disp.idx].rem_time }

(* The expected log and completion times of the SRTF scenario. *)
C17_Input == << InRec(1,0,7,1), InRec(2,2,4,1), InRec(3,4,1,1), InRec(4,5,4,1) >>

C17_Log ==
    << Entry(1,0,2), Entry(2,2,4), Entry(3,4,5), Entry(2,5,7), Entry(4,7,11),
       Entry(1,11,16) >>

(* C17: under SRTF, during every time unit of every dispatch the running   *)
(* process has the smallest remaining time among the ready processes; a    *)
(* dispatch ends at the earliest arrival, strictly inside it, of a process *)
(* whose burst is smaller than the running process's remaining time at     *)
(* dispatch, and otherwise runs to completion.                             *)
C17_Original ==
    (Dispatched /\ algorithm_code = SRTF) =>
        /\ ShortestThroughout
        /\ IF ShorterArrivals = {}
           THEN gen_disp.run = gen_disp.snap[gen_disp.idx].rem_time
           ELSE \E i \in ShorterArrivals :
                   /\ gen_disp.start + gen_disp.run = gen_disp.snap[i].at
                   /\ \A j \in ShorterArrivals :
                         gen_disp.snap[i].at <= gen_disp.snap[j].at

(* C17 as the code has it: under SRTF every dispatch lasts one time unit,  *)
(* and during it the running process has the smallest remaining time among *)
(* the ready processes; consecutive dispatches of one process are merged   *)
(* in the log, and on P1(0,7), P2(2,4), P3(4,1), P4(5,4) the returned log  *)
(* is (1,0,2),(2,2,4),(3,4,5),(2,5,7),(4,7,11),(1,11,16) with completion    *)
(* times 16, 7, 5, 11.                                                     *)
C17_Amended ==
    /\ (Dispatched /\ algorithm_code = SRTF) =>
          /\ ShortestThroughout
          /\ gen_disp.run = 1
    /\ (IsInput(SRTF, 0, C17_Input) /\ Returned) =>
          /\ logs = C17_Log
          /\ << procs[1].ct, procs[2].ct, procs[3].ct, procs[4].ct >>
                = << 16, 7, 5, 11 >>

(* C17 witness: a process that arrives with a burst smaller than the       *)
(* remaining time of the process on the CPU is dispatched at its arrival,  *)
(* the log entry before its own being the preempted process's, which is    *)
(* still unfinished.                                                       *)
C17_Witness ==
    /\ Dispatched
    /\ algorithm_code = SRTF
    /\ NeverRun(gen_disp.idx)
    /\ gen_disp.snap[gen_disp.idx].at = gen_disp.start
    /\ Len(local_logs) >= 2
    /\ \E j \in Positions :
          /\ ~NeverRun(j)
          /\ ReadyAt(j, gen_disp.start)
          /\ gen_disp.snap[j].rem_time > gen_disp.snap[gen_disp.idx].rem_time
          /\ local_logs[Len(local_logs) - 1].pid = gen_disp.snap[j].pid
          /\ local_logs[Len(local_logs) - 1].finish = gen_disp.start

(* C18: under PRIO_NP and PRIO_P, at every selection each ready process     *)
(* that has never run has current_priority                                 *)
(* max(1, base_priority - floor((t - at)/5)); once a process has been      *)
(* dispatched, its current_priority stays what it was at that first        *)
(* dispatch (gen_disp.cap).                                                *)
C18_AgingFreeze ==
    algorithm_code \in {PRIO_NP, PRIO_P} =>
        /\ gen_disp.idx /= 0 =>
              \A i \in Positions :
                  (ReadyAt(i, gen_disp.start) /\ NeverRun(i)) =>
                      gen_disp.snap[i].current_priority = AgedAt(i, gen_disp.start)
        /\ \A i \in Positions :
              queue[i].first_run /= -1 =>
                  queue[i].current_priority = gen_disp.cap[i]

(* C18 witness: a process first dispatched with an aged priority (lower    *)
(* than its base) is unfinished and has since waited long enough for the   *)
(* aging rule to give a still lower number, and its current_priority is    *)
(* the one of its first dispatch.                                          *)
C18_Witness ==
    /\ Dispatched
    /\ algorithm_code = PRIO_P
    /\ \E i \in Positions :
          /\ queue[i].first_run /= -1
          /\ queue[i].rem_time > 0
          /\ queue[i].current_priority < queue[i].base_priority
          /\ queue[i].current_priority = gen_disp.cap[i]
          /\ AgedAt(i, current_time) < queue[i].current_priority

(* C19: under PRIO_NP and PRIO_P, whatever integer the input priority is,  *)
(* aging only lowers the priority number: current_priority <=              *)
(* base_priority in every reachable state, in the working copy and in the  *)
(* caller's table.                                                         *)
C19_AgingOnlyLowers ==
    algorithm_code \in {PRIO_NP, PRIO_P} =>
        \A i \in Positions :
            /\ queue[i].current_priority <= queue[i].base_priority
            /\ procs[i].current_priority <= procs[i].base_priority

(* C19 does hold of the inputs whose priorities are all at least 1. *)
C19_FromOne ==
    (algorithm_code \in {PRIO_NP, PRIO_P}
        /\ \A i \in Positions : queue[i].priority >= 1) =>
        \A i \in Positions :
            /\ queue[i].current_priority <= queue[i].base_priority
            /\ procs[i].current_priority <= procs[i].base_priority

-----------------------------------------------------------------------------
(* Vocabulary of the RR dispatches: rr_disp.rest is the ready queue right  *)
(* after the dispatched process was taken off its head.                    *)
RRFinish == rr_disp.start + rr_disp.exec

(* The state right after an RR dispatch that did not complete the process. *)
RRPreempted ==
    /\ algorithm_code = RR
    /\ rr_disp.idx /= 0
    /\ rr_disp.requeued
    /\ current_time = RRFinish

(* The positions that had arrived by the end of the last dispatch and were *)
(* not queued when it began.                                               *)
RRNewArrivals ==
    { i \in Positions \ {rr_disp.idx} :
        /\ queue[i].at <= RRFinish
        /\ queue[i].rem_time > 0
        /\ ~InSeq(rr_disp.rest, i) }

(* C20: under RR, when a dispatch ends without completing the process,     *)
(* every process that has arrived by then and is not yet queued is         *)
(* appended, in table order, before the running process is put back at the *)
(* tail; and when a process runs again, every process that had arrived by  *)
(* the time it was put back has been dispatched in between or before.      *)
C20_ArrivalsFirst ==
    /\ RRPreempted =>
          LET first == Len(rr_disp.rest) + 1
              last == Len(ready_queue) - 1
          IN /\ Len(ready_queue) = Len(rr_disp.rest) + Cardinality(RRNewArrivals) + 1
             /\ SubSeq(ready_queue, 1, Len(rr_disp.rest)) = rr_disp.rest
             /\ ready_queue[Len(ready_queue)] = rr_disp.idx
             /\ \A k \in first..last : ready_queue[k] \in RRNewArrivals
             /\ \A k, m \in first..last : k < m => ready_queue[k] < ready_queue[m]
    /\ (algorithm_code = RR /\ rr_disp.idx /= 0 /\ rr_disp.rerun) =>
          \A i \in Positions :
              (queue[i].at <= rr_disp.enq_t /\ queue[i].bt > 0) =>
                  /\ queue[i].first_run /= -1
                  /\ queue[i].first_run <= rr_disp.start

(* C20 witness: a dispatch cut at time 1 by two simultaneous arrivals,     *)
(* with another process waiting: the queue is that process, the two        *)
(* arrivals in table order, then the preempted process.                    *)
C20_Witness ==
    /\ RRPreempted
    /\ rr_disp.rest /= << >>
    /\ Cardinality(RRNewArrivals) = 2
    /\ Len(ready_queue) = Len(rr_disp.rest) + 3

(* C20 second witness: the preempted process runs again after a process    *)
(* that arrived during its previous dispatch has had its first dispatch.   *)
C20_RerunWitness ==
    /\ algorithm_code = RR
    /\ rr_disp.idx /= 0
    /\ rr_disp.rerun
    /\ \E i \in Positions :
          /\ queue[i].at = rr_disp.enq_t
          /\ queue[i].at > queue[rr_disp.idx].first_run
          /\ queue[i].first_run >= rr_disp.enq_t
          /\ queue[i].first_run < rr_disp.start

-----------------------------------------------------------------------------
(* The quantum of MLFQ queue 1 or 2. *)
QuantumOf(current_q) == IF current_q = 1 THEN 8 ELSE 16

(* C21: under MLFQ every dispatch runs for exactly min(rem_time, quantum   *)
(* of the queue it was taken from), the quanta being 8 for Q1, 16 for Q2   *)
(* and unbounded for Q3, whatever arrives during the dispatch; so a        *)
(* dispatch from Q3 runs to completion, and a dispatch from Q1 or Q2 that  *)
(* does not complete the process has used its full quantum and is followed *)
(* by a demotion: the process is at the next level and at the tail of that *)
(* level's queue.                                                          *)
C21_ExecTime ==
    (algorithm_code = MLFQ /\ mlfq_disp.idx /= 0) =>
        /\ mlfq_disp.current_q \in {1, 2, 3}
        /\ mlfq_disp.current_q = 3 => mlfq_disp.exec = mlfq_disp.rem
        /\ mlfq_disp.current_q \in {1, 2} =>
              /\ mlfq_disp.exec =
                    (IF mlfq_disp.rem < QuantumOf(mlfq_disp.current_q)
                     THEN mlfq_disp.rem ELSE QuantumOf(mlfq_disp.current_q))
              /\ mlfq_disp.exec < mlfq_disp.rem =>
                    /\ mlfq_disp.exec = QuantumOf(mlfq_disp.current_q)
                    /\ mlfq_disp.level = mlfq_disp.current_q + 1
                    /\ mlfq_disp.tail = mlfq_disp.current_q + 1

(* C21 witness: a Q1 dispatch of a process with more than 8 units left     *)
(* runs its 8 units although another process arrives strictly inside it,   *)
(* and the process is then at the tail of Q2.                              *)
C21_Witness ==
    /\ algorithm_code = MLFQ
    /\ mlfq_disp.idx /= 0
    /\ mlfq_disp.current_q = 1
    /\ mlfq_disp.rem > 8
    /\ mlfq_disp.exec = 8
    /\ mlfq_disp.tail = 2
    /\ \E i \in Positions :
          /\ queue[i].at > mlfq_disp.start
          /\ queue[i].at < mlfq_disp.start + mlfq_disp.exec

(* C21 second witness: a dispatch from Q3 and one from Q2 that used its 16 *)
(* units are possible too.                                                 *)
C21_DeepWitness ==
    /\ algorithm_code = MLFQ
    /\ mlfq_disp.idx /= 0
    /\ mlfq_disp.current_q = 3
    /\ mlfq_disp.exec = mlfq_disp.rem
    /\ mlfq_hist[mlfq_disp.idx].dem >= 2

-----------------------------------------------------------------------------
(* The start of a loop iteration. *)
LoopTop == pc = "loop" /\ completed < n

(* How often position i is in the sequence s. *)
Occurrences(s, i) == Cardinality({ k \in 1..Len(s) : s[k] = i })

IsReady(i) == queue[i].at <= current_time /\ queue[i].rem_time > 0

(* The ready queues as the arrival scan at the top of the iteration leaves *)
(* them.                                                                   *)
RRScanned == RRArrivals(ready_queue, in_queue, queue, current_time).rq

MLFQScanned ==
    MLFQCheckArrivals(q1_ready, in_ready_queue, queue, current_time).q1

(* C22: under RR and MLFQ, at the start of every loop iteration, after the *)
(* arrival scan, the ready queue(s) hold exactly the positions with        *)
(* at <= t and rem_time > 0, each exactly once; under MLFQ each is in the  *)
(* one queue its current_queue names.  No ready process is lost, no        *)
(* finished process stays queued.                                          *)
C22_QueuesExact ==
    /\ (algorithm_code = RR /\ LoopTop) =>
          \A i \in Positions :
              Occurrences(RRScanned, i) = (IF IsReady(i) THEN 1 ELSE 0)
    /\ (algorithm_code = MLFQ /\ LoopTop) =>
          \A i \in Positions :
              /\ Occurrences(MLFQScanned, i) + Occurrences(q2_ready, i)
                    + Occurrences(q3_ready, i) = (IF IsReady(i) THEN 1 ELSE 0)
              /\ Occurrences(MLFQScanned, i) = 1 => queue[i].current_queue = 1
              /\ Occurrences(q2_ready, i) = 1 => queue[i].current_queue = 2
              /\ Occurrences(q3_ready, i) = 1 => queue[i].current_queue = 3

(* C22 witness: an MLFQ iteration starts with a process in each of Q1, Q2  *)
(* and Q3.                                                                 *)
C22_Witness ==
    /\ algorithm_code = MLFQ
    /\ LoopTop
    /\ MLFQScanned /= << >>
    /\ q2_ready /= << >>
    /\ q3_ready /= << >>

(* C22 second witness: an RR iteration starts with three processes queued, *)
(* one process finished and one not yet arrived.                           *)
C22_RRWitness ==
    /\ algorithm_code = RR
    /\ LoopTop
    /\ Len(RRScanned) = 3
    /\ \E i, j \in Positions :
          /\ queue[i].rem_time = 0
          /\ queue[j].at > current_time

=============================================================================
